---- MODULE Spec2Model ----
(***************************************************************************)
(* A model of volatility/framework/plugins/windows/dumpfiles.py:           *)
(*   - DumpFiles.dump_file_producer, one fragment per step (SpecDump);     *)
(*   - DumpFiles.process_file_object and DumpFiles._generator as the lazy  *)
(*     generator they are, driven by a consumer that pulls rows (Spec,     *)
(*     and SpecFile for one file object of any shape).                     *)
(* Memory reads are the nondeterminism: every dereference of the memory    *)
(* sample either yields a value or raises InvalidAddressException.         *)
(***************************************************************************)
EXTENDS Integers, Sequences, FiniteSets, Bags, TLC

(* ------------------------------ bounds -------------------------------- *)

\* longest fragment sequence a cache object yields
MaxFrags == 2
\* largest destination offset of a fragment
MaxFileOffset == 2
\* largest fragment size
MaxSize == 2
\* most processes in procs
MaxProcs == 2
\* most handle entries of one process
MaxHandles == 2
\* most mapping-tree nodes of one process
MaxVads == 2
\* most explicit offsets
MaxOffsets == 2

(* --------------------------- program constants ------------------------ *)

FILE_DEVICE_DISK == 7
FILE_DEVICE_NETWORK_FILE_SYSTEM == 20
\* a device that uses the "File" object type without being a file on disk
FILE_DEVICE_NAMED_PIPE == 17

DiskDevices == {FILE_DEVICE_DISK, FILE_DEVICE_NETWORK_FILE_SYSTEM}
DeviceTypes == DiskDevices \cup {FILE_DEVICE_NAMED_PIPE}

\* member number -> cache name, in the order process_file_object visits them
CacheNames == <<"DataSectionObject", "ImageSectionObject", "SharedCacheMap">>
MemberOrder == <<1, 2, 3>>

(* ------------------------------ the layer ----------------------------- *)

\* the bytes of the layer that are readable, from offset 0
LayerBytes == <<1, 2, 0>>

\* layer.read(memoffset, datasize, pad = True): exactly datasize bytes,
\* zeros where the layer is unreadable
LayerRead(memoffset, datasize) ==
  [i \in 1..datasize |->
     IF memoffset + i <= Len(LayerBytes) THEN LayerBytes[memoffset + i] ELSE 0]

Max(a, b) == IF a >= b THEN a ELSE b

\* a write that keeps the bytes already there and only extends the buffer
WriteKeepingOld(buf, fileoffset, data) ==
  IF data = <<>> THEN buf
  ELSE [i \in 1..Max(Len(buf), fileoffset + Len(data)) |->
          IF i <= Len(buf) THEN buf[i]
          ELSE IF i > fileoffset THEN data[i - fileoffset] ELSE 0]

\* filedata.data.seek(fileoffset); filedata.data.write(data) on a BytesIO:
\* an empty write changes nothing, a write past the end zero-fills the gap
WriteAt(buf, fileoffset, data) ==
  IF data = <<>> THEN buf
  ELSE [i \in 1..Max(Len(buf), fileoffset + Len(data)) |->
          IF i > fileoffset /\ i <= fileoffset + Len(data) THEN data[i - fileoffset]
          ELSE IF i <= Len(buf) THEN buf[i] ELSE 0]

\* one iteration of the loop of dump_file_producer
CopyFragment(buf, frag) ==
  WriteAt(buf, frag.fileoffset, LayerRead(frag.memoffset, frag.datasize))

\* a check that forgets the all-zero case
IsEmpty(buf) == Len(buf) = 0

\* cached_length == 0 or filedata.data.getvalue().count(0) == cached_length
IsEmptyOrZero(buf) ==
  Len(buf) = 0 \/ Cardinality({i \in 1..Len(buf) : buf[i] = 0}) = Len(buf)

Fragments ==
  [memoffset : 0..(Len(LayerBytes) - 1), fileoffset : 0..MaxFileOffset, datasize : 0..MaxSize]

RECURSIVE SeqsUpTo(_, _)
SeqsUpTo(S, n) ==
  IF n = 0 THEN {<<>>}
  ELSE LET shorter == SeqsUpTo(S, n - 1)
       IN  shorter \cup {Append(s, x) : s \in {t \in shorter : Len(t) = n - 1}, x \in S}

(* ------------------- dump_file_producer, step by step ----------------- *)

VARIABLES
  dPc,      \* "off" | "loop" | "done"
  dPages,   \* what memory_object.get_available_pages() yields
  dFault,   \* 0, or k: fetching the k-th fragment raises InvalidAddressException
  dIdx,     \* fragments copied so far
  filedata,     \* filedata.data
  result_text,  \* result_text: "" | "Stored" | "NoData" | "Unable"
  dSink     \* the buffers handed to produce_file

dumpVars == <<dPc, dPages, dFault, dIdx, filedata, result_text, dSink>>

DumpIdle ==
  /\ dPc = "off" /\ dPages = <<>> /\ dFault = 0 /\ dIdx = 0
  /\ filedata = <<>> /\ result_text = "" /\ dSink = <<>>

DumpStart ==
  /\ dPc = "loop"
  /\ dPages \in SeqsUpTo(Fragments, MaxFrags)
  /\ dFault \in 0..(Len(dPages) + 1)
  /\ dIdx = 0 /\ filedata = <<>> /\ result_text = "" /\ dSink = <<>>

\* the for loop's body, lines 65-68
DumpCopy ==
  /\ dPc = "loop" /\ dIdx < Len(dPages) /\ dFault # dIdx + 1
  /\ filedata' = CopyFragment(filedata, dPages[dIdx + 1])
  /\ dIdx' = dIdx + 1
  /\ UNCHANGED <<dPc, dPages, dFault, result_text, dSink>>

\* the iteration raises: lines 77-78
DumpFault ==
  /\ dPc = "loop" /\ dFault = dIdx + 1
  /\ result_text' = "Unable"
  /\ dPc' = "done"
  /\ UNCHANGED <<dPages, dFault, dIdx, filedata, dSink>>

\* the iteration is exhausted: lines 70-76
DumpFinish ==
  /\ dPc = "loop" /\ dIdx = Len(dPages) /\ dFault # dIdx + 1
  /\ IF IsEmptyOrZero(filedata)
       THEN result_text' = "NoData" /\ dSink' = dSink
       ELSE result_text' = "Stored" /\ dSink' = Append(dSink, filedata)
  /\ dPc' = "done"
  /\ UNCHANGED <<dPages, dFault, dIdx, filedata>>

(* ---------------------- the memory sample's objects ------------------- *)

\* what a cache pointer of a file object leads to: a dereference that raises,
\* an object whose is_valid() is false, or a valid cache object
CacheKinds == {"data", "zero", "bad"}
MemberKinds == {"fault", "invalid"} \cup CacheKinds

\* a valid cache object: the fragments get_available_pages() yields, and the
\* fragment (if any) at which the iteration raises
CacheOf(kind) ==
  CASE kind = "data" -> [pages |-> <<[memoffset |-> 0, fileoffset |-> 0, datasize |-> 1]>>,
                         fault |-> 0]
    [] kind = "zero" -> [pages |-> <<[memoffset |-> 2, fileoffset |-> 1, datasize |-> 1]>>,
                         fault |-> 0]
    [] OTHER         -> [pages |-> <<[memoffset |-> 0, fileoffset |-> 0, datasize |-> 1]>>,
                         fault |-> 2]

\* a _FILE_OBJECT: whether DeviceObject.DeviceType can be read and what it is,
\* whether file_name_with_device() returns, and the three cache members
FileObjects ==
  [devOk : BOOLEAN, dev : DeviceTypes, nameOk : BOOLEAN, mem : [1..3 -> MemberKinds]]

File(devOk, dev, nameOk, mem) ==
  [devOk |-> devOk, dev |-> dev, nameOk |-> nameOk, mem |-> mem]

\* a sample with one file object of each behaviour the discovery can meet
SampleFiles ==
  { File(TRUE, FILE_DEVICE_DISK, TRUE, <<"data", "fault", "zero">>),
    File(TRUE, FILE_DEVICE_NETWORK_FILE_SYSTEM, TRUE, <<"invalid", "bad", "invalid">>),
    File(TRUE, FILE_DEVICE_NAMED_PIPE, TRUE, <<"data", "data", "data">>),
    File(FALSE, FILE_DEVICE_DISK, TRUE, <<"data", "data", "data">>),
    File(TRUE, FILE_DEVICE_DISK, FALSE, <<"data", "data", "data">>) }

NoFile == File(FALSE, FILE_DEVICE_NAMED_PIPE, FALSE, <<"invalid", "invalid", "invalid">>)

(* ---------------- dump_file_producer as one call ----------------------- *)

RECURSIVE CopyAll(_, _)
\* the buffer after the first n fragments
CopyAll(pages, n) ==
  IF n = 0 THEN <<>> ELSE CopyFragment(CopyAll(pages, n - 1), pages[n])

\* lines 59-80: the result text and what is handed to produce_file
dump_file_producer(cache) ==
  IF cache.fault \in 1..(Len(cache.pages) + 1)
    THEN [text |-> "Unable", sunk |-> <<>>]
    ELSE LET buf == CopyAll(cache.pages, Len(cache.pages))
         IN  IF IsEmptyOrZero(buf)
               THEN [text |-> "NoData", sunk |-> <<>>]
               ELSE [text |-> "Stored", sunk |-> <<buf>>]

Dump(f, m) == dump_file_producer(CacheOf(f.mem[m]))

(* -------------------------- process_file_object ------------------------ *)

\* a filter that lets every device through
AnyDevice(dev) == TRUE

\* line 90
OnDisk(dev) == dev \in DiskDevices

RECURSIVE UntilFault(_, _)
\* the members before the first one whose dereference raises
UntilFault(f, ms) ==
  IF ms = <<>> \/ f.mem[Head(ms)] = "fault" THEN <<>>
  ELSE <<Head(ms)>> \o UntilFault(f, Tail(ms))

\* a walk over the members that a fault ends
dump_parameters_stopping(f) ==
  SelectSeq(UntilFault(f, MemberOrder), LAMBDA m : f.mem[m] \in CacheKinds)

\* a walk that queues the shared cache map twice
dump_parameters_repeating(f) ==
  SelectSeq(MemberOrder \o <<3>>, LAMBDA m : f.mem[m] \in CacheKinds)

\* lines 108-131: the members queued for dumping, each dereferenced under
\* its own try and queued when is_valid() holds
dump_parameters(f) ==
  SelectSeq(MemberOrder, LAMBDA m : f.mem[m] \in CacheKinds)

\* lines 90-131, the part of process_file_object that runs before the first
\* row: "raise" (the exception leaves the generator), "return" (no row), or
\* "queue" with dump_parameters; derefs are the members dereferenced
process_file_object(f) ==
  IF ~f.devOk THEN [status |-> "raise", derefs |-> <<>>, queue |-> <<>>]
  ELSE IF ~OnDisk(f.dev) THEN [status |-> "return", derefs |-> <<>>, queue |-> <<>>]
  ELSE IF ~f.nameOk THEN [status |-> "raise", derefs |-> <<>>, queue |-> <<>>]
  ELSE [status |-> "queue", derefs |-> MemberOrder, queue |-> dump_parameters(f)]

\* every queued member reconstructed at once
ReconstructedEagerly(queue) == queue

\* lines 133-145: the members reconstructed before the next yield
Reconstructed(queue) == <<Head(queue)>>

\* the row of line 143
Row(f, m) == [cache |-> CacheNames[m], file |-> f, result |-> Dump(f, m).text]

(* ------------------------ the generator's state ------------------------ *)

VARIABLES
  nProcs,     \* len(procs)
  nOffsets,   \* len(offsets)
  image,      \* the file objects of the memory sample
  pc,         \* where _generator stands
  procIdx,    \* processes taken from procs
  hIdx,       \* handle entries taken from the current process
  vIdx,       \* mapping-tree nodes taken from the current process
  oIdx,       \* offsets taken from offsets
  cur,        \* process_file_object suspended at its yield: file, queue, walk
  pending,    \* the consumer asked for a row and has no answer yet
  requested,  \* rows asked for
  delivered,  \* rows yielded
  started,    \* calls of dump_file_producer
  stored,     \* calls of produce_file
  attempts,   \* bag of <<file, member>>: calls of dump_file_producer
  found,      \* bag of files: calls of process_file_object that reached line 108
  unit,       \* the handle entry, tree node or offset worked on last
  skipped     \* the mapping tree a process had when the generator passed it by

inVars == <<nProcs, nOffsets, image>>
posVars == <<pc, procIdx, hIdx, vIdx, oIdx, cur>>
conVars == <<pending, requested, delivered>>
logVars == <<started, stored, attempts, found>>
genVars == <<inVars, posVars, conVars, logVars, unit, skipped>>
vars == <<dumpVars, genVars>>

Walks == <<"handles", "vads", "offsets">>
WalkNo(w) == CHOOSE i \in 1..3 : Walks[i] = w

NoUnit ==
  [tag |-> <<0, 0, 0>>, kind |-> "none", file |-> NoFile, status |-> "returned",
   derefs |-> <<>>, rows |-> <<>>, calls |-> <<>>, sunk |-> 0]

NewUnit(tag, kind, f, status) ==
  [NoUnit EXCEPT !.tag = tag, !.kind = kind, !.file = f, !.status = status]

NoCur == [file |-> NoFile, queue |-> <<>>, walk |-> "none"]
NoSkip == [nodes |-> 0, rows |-> <<>>]

GenInit(np, no, img) ==
  /\ nProcs = np /\ nOffsets = no /\ image = img
  /\ pc = "start" /\ procIdx = 0 /\ hIdx = 0 /\ vIdx = 0 /\ oIdx = 0 /\ cur = NoCur
  /\ pending = FALSE /\ requested = 0 /\ delivered = 0
  /\ started = 0 /\ stored = 0 /\ attempts = EmptyBag /\ found = EmptyBag
  /\ unit = NoUnit /\ skipped = NoSkip

(* ------------------------------ the consumer --------------------------- *)

\* next() on the generator; a consumer that stops pulling takes no step
Pull ==
  /\ ~pending /\ pc \notin {"done", "raised"}
  /\ pending' = TRUE
  /\ requested' = requested + 1
  /\ UNCHANGED <<dumpVars, inVars, posVars, delivered, logVars, unit, skipped>>

(* --------------------------- process_file_object ----------------------- *)

RECURSIVE AddAll(_, _, _)
AddAll(bag, f, ms) ==
  IF ms = <<>> THEN bag
  ELSE AddAll(bag (+) SetToBag({<<f, Head(ms)>>}), f, Tail(ms))

StoredAmong(f, ms) ==
  Cardinality({i \in 1..Len(ms) : Dump(f, ms[i]).text = "Stored"})

\* lines 133-145, one round of the loop: reconstruct, then yield the row of
\* the queue's head; the generator stays suspended at the yield
YieldRow(f, queue, w, u) ==
  LET done == Reconstructed(queue)
  IN  /\ started' = started + Len(done)
      /\ stored' = stored + StoredAmong(f, done)
      /\ attempts' = AddAll(attempts, f, done)
      /\ unit' = [u EXCEPT !.status = "running",
                           !.rows = Append(@, Row(f, Head(queue))),
                           !.calls = @ \o done,
                           !.sunk = @ + StoredAmong(f, done)]
      /\ cur' = [file |-> f, queue |-> Tail(queue), walk |-> w]
      /\ pc' = "yielded"
      /\ pending' = FALSE
      /\ delivered' = delivered + 1
      /\ UNCHANGED requested

\* the call of process_file_object(f) by the walk w, up to its first yield,
\* its return or the exception that leaves it (caught by the walk's except)
EnterFile(f, tag, w) ==
  LET e == process_file_object(f)
      u == [NewUnit(tag, "file", f, "returned") EXCEPT !.derefs = e.derefs]
  IN  /\ found' = IF e.status = "queue" THEN found (+) SetToBag({f}) ELSE found
      /\ IF e.status = "queue" /\ e.queue # <<>>
           THEN YieldRow(f, e.queue, w, u)
           ELSE /\ unit' = [u EXCEPT !.status = IF e.status = "raise" THEN "raised"
                                                                      ELSE "returned"]
                /\ pc' = w
                /\ UNCHANGED <<cur, conVars, started, stored, attempts>>

\* the consumer pulls again and the loop of line 133 has a next member
ResumeRow ==
  /\ pending /\ pc = "yielded" /\ cur.queue # <<>>
  /\ YieldRow(cur.file, cur.queue, cur.walk, unit)
  /\ UNCHANGED <<dumpVars, inVars, procIdx, hIdx, vIdx, oIdx, found, skipped>>

\* the loop of line 133 is exhausted: process_file_object returns to its walk
ResumeReturn ==
  /\ pending /\ pc = "yielded" /\ cur.queue = <<>>
  /\ pc' = cur.walk
  /\ cur' = NoCur
  /\ unit' = [unit EXCEPT !.status = "returned"]
  /\ UNCHANGED <<dumpVars, inVars, procIdx, hIdx, vIdx, oIdx, conVars, logVars, skipped>>

\* a walk whose except clause is missing: the fault leaves _generator
SkipUnitRaising(tag, kind, w) ==
  /\ unit' = NewUnit(tag, kind, NoFile, IF kind = "fault" THEN "raised" ELSE "returned")
  /\ pc' = IF kind = "fault" THEN "raised" ELSE w
  /\ UNCHANGED <<cur, conVars, logVars>>

\* a unit of a walk that ends without a file object: the except of the walk
\* caught a fault, or the entry is filtered
SkipUnit(tag, kind, w) ==
  /\ unit' = NewUnit(tag, kind, NoFile, IF kind = "fault" THEN "raised" ELSE "returned")
  /\ pc' = w
  /\ UNCHANGED <<cur, conVars, logVars>>

(* -------------------------------- _generator --------------------------- *)

\* lines 153 and 205: the first next() enters the body
Start ==
  /\ pending /\ pc = "start"
  /\ pc' = IF nProcs > 0 THEN "procs" ELSE IF nOffsets > 0 THEN "offsets" ELSE "end"
  /\ UNCHANGED <<dumpVars, inVars, procIdx, hIdx, vIdx, oIdx, cur, conVars, logVars,
                 unit, skipped>>

\* the body is over: StopIteration answers the consumer
Finish ==
  /\ pending
  /\ \/ pc = "end"
     \/ pc = "procs" /\ procIdx = nProcs
     \/ pc = "offsets" /\ oIdx = nOffsets
  /\ pc' = "done"
  /\ pending' = FALSE
  /\ UNCHANGED <<dumpVars, inVars, procIdx, hIdx, vIdx, oIdx, cur, requested, delivered,
                 logVars, unit, skipped>>

\* what a mapping-tree node is: its dereference raises, it has neither
\* ControlArea nor Subsection, its file object is not valid, or a file object
VadNodes ==
  {[kind |-> k, file |-> NoFile] : k \in {"fault", "nomember", "invalid"}}
    \cup {[kind |-> "file", file |-> f] : f \in image}

\* the rows process_file_object(f) yields when nothing stops it
FileRows(f) ==
  IF f.devOk /\ f.dev \in DiskDevices /\ f.nameOk
    THEN LET ms == SelectSeq(MemberOrder, LAMBDA m : f.mem[m] \in CacheKinds)
         IN  [i \in 1..Len(ms) |-> Row(f, ms[i])]
    ELSE <<>>

\* the rows lines 186-203 yield for one node of a mapping tree
NodeRows(node) == IF node.kind = "file" THEN FileRows(node.file) ELSE <<>>

RECURSIVE PassedBy(_)
\* the mapping trees of up to n nodes a process can have, each as its number
\* of nodes and the rows the walk of lines 185-203 yields over it
PassedBy(n) ==
  IF n = 0 THEN {[nodes |-> 0, rows |-> <<>>]}
  ELSE LET shorter == PassedBy(n - 1)
           blocks == {NodeRows(node) : node \in VadNodes}
       IN  shorter \cup {[nodes |-> n, rows |-> t.rows \o b] :
                           t \in {x \in shorter : x.nodes = n - 1}, b \in blocks}

\* the mapping-tree walk placed before the handle walk
NextWalkSwapped(w) ==
  CASE w = "procs" -> "vads" [] w = "vads" -> "handles" [] OTHER -> "procs"

\* the order of the two loops in the body of line 163: the handle walk
\* (line 171), then the mapping-tree walk (line 185), then the next process
NextWalk(w) ==
  CASE w = "procs" -> "handles" [] w = "handles" -> "vads" [] OTHER -> "procs"

\* lines 163-169: proc.ObjectTable raises, and continue goes to the next
\* process; tree is the mapping tree this process has
ProcObjectTableFault ==
  /\ pending /\ pc = "procs" /\ procIdx < nProcs
  /\ procIdx' = procIdx + 1
  /\ skipped' \in PassedBy(MaxVads)
  /\ unit' = NewUnit(<<procIdx + 1, 0, 0>>, "otfault", NoFile, "raised")
  /\ UNCHANGED <<dumpVars, inVars, pc, hIdx, vIdx, oIdx, cur, conVars, logVars>>

\* lines 163-171: proc.ObjectTable is read and the handle walk begins
ProcEnter ==
  /\ pending /\ pc = "procs" /\ procIdx < nProcs
  /\ procIdx' = procIdx + 1
  /\ hIdx' = 0 /\ vIdx' = 0
  /\ pc' = NextWalk("procs")
  /\ skipped' = NoSkip
  /\ UNCHANGED <<dumpVars, inVars, oIdx, cur, conVars, logVars, unit>>

\* lines 171-180: one handle entry; get_object_type raises, or the type is
\* not "File", or the body is a _FILE_OBJECT
HandleEntry ==
  /\ pending /\ pc = "handles" /\ hIdx < MaxHandles
  /\ hIdx' = hIdx + 1
  /\ LET tag == <<procIdx, WalkNo("handles"), hIdx + 1>>
     IN  \/ SkipUnit(tag, "fault", "handles") /\ UNCHANGED found
         \/ SkipUnit(tag, "other", "handles") /\ UNCHANGED found
         \/ \E f \in image : EnterFile(f, tag, "handles")
  /\ UNCHANGED <<dumpVars, inVars, procIdx, vIdx, oIdx, skipped>>

\* line 185: the handle walk is over; get_vad_root().traverse() begins
HandlesExhausted ==
  /\ pending /\ pc = "handles"
  /\ pc' = NextWalk("handles")
  /\ UNCHANGED <<dumpVars, inVars, procIdx, hIdx, vIdx, oIdx, cur, conVars, logVars,
                 unit, skipped>>

\* line 185 stands under no try: a fault of get_vad_root() or of traverse()
\* leaves _generator
VadWalkFault ==
  /\ pending /\ pc = "vads"
  /\ pc' = "raised"
  /\ pending' = FALSE
  /\ UNCHANGED <<dumpVars, inVars, procIdx, hIdx, vIdx, oIdx, cur, requested, delivered,
                 logVars, unit, skipped>>

\* lines 185-203: one node of the mapping tree
VadNode ==
  /\ pending /\ pc = "vads" /\ vIdx < MaxVads
  /\ vIdx' = vIdx + 1
  /\ LET tag == <<procIdx, WalkNo("vads"), vIdx + 1>>
     IN  \E node \in VadNodes :
           IF node.kind = "file"
             THEN EnterFile(node.file, tag, "vads")
             ELSE SkipUnit(tag, node.kind, "vads") /\ UNCHANGED found
  /\ UNCHANGED <<dumpVars, inVars, procIdx, hIdx, oIdx, skipped>>

\* the mapping-tree walk is over: back to line 163, both iterators spent
VadsExhausted ==
  /\ pending /\ pc = "vads"
  /\ pc' = NextWalk("vads")
  /\ hIdx' = 0 /\ vIdx' = 0
  /\ UNCHANGED <<dumpVars, inVars, procIdx, oIdx, cur, conVars, logVars, unit, skipped>>

\* lines 207-217: one explicit offset; context.object raises, or the file
\* object is handed to process_file_object
OffsetEntry ==
  /\ pending /\ pc = "offsets" /\ oIdx < nOffsets
  /\ oIdx' = oIdx + 1
  /\ LET tag == <<0, WalkNo("offsets"), oIdx + 1>>
     IN  \/ SkipUnit(tag, "fault", "offsets") /\ UNCHANGED found
         \/ \E f \in image : EnterFile(f, tag, "offsets")
  /\ UNCHANGED <<dumpVars, inVars, procIdx, hIdx, vIdx, skipped>>

(* ----------------------------- specifications -------------------------- *)

Init ==
  /\ DumpIdle
  /\ \E np \in 0..MaxProcs, no \in 0..MaxOffsets : GenInit(np, no, SampleFiles)

Next ==
  \/ Pull \/ Start \/ Finish
  \/ ProcObjectTableFault \/ ProcEnter
  \/ HandleEntry \/ HandlesExhausted
  \/ VadWalkFault \/ VadNode \/ VadsExhausted
  \/ OffsetEntry
  \/ ResumeRow \/ ResumeReturn

Spec == Init /\ [][Next]_vars

\* _generator over explicit offsets of a sample that holds one file object,
\* of any shape
InitFile ==
  /\ DumpIdle
  /\ \E no \in 1..MaxOffsets, f \in FileObjects : GenInit(0, no, {f})

NextFile ==
  \/ Pull \/ Start \/ Finish
  \/ OffsetEntry
  \/ ResumeRow \/ ResumeReturn

SpecFile == InitFile /\ [][NextFile]_vars

\* dump_file_producer on any cache object
InitDump ==
  /\ DumpStart
  /\ GenInit(0, 0, {})

NextDump ==
  \/ DumpCopy /\ UNCHANGED genVars
  \/ DumpFault /\ UNCHANGED genVars
  \/ DumpFinish /\ UNCHANGED genVars

SpecDump == InitDump /\ [][NextDump]_vars

(* -------------------------------- claims ------------------------------- *)

Faulted == dFault # 0
NonZero(buf) == \E i \in 1..Len(buf) : buf[i] # 0

\* C1: dump_file_producer hands a buffer to produce_file and answers
\* "Stored" exactly when the fragment iteration ended without a fault and
\* the buffer is non-empty with a non-zero byte; an empty or all-zero buffer
\* gives "No data is cached" and nothing is handed over; a fault after any
\* number of copied fragments gives "Unable to dump" and nothing is handed
\* over.
Thm_C1 ==
  /\ dPc = "loop" => dSink = <<>> /\ result_text = ""
  /\ dPc = "done" =>
       /\ (result_text = "Stored") <=> (~Faulted /\ Len(filedata) > 0 /\ NonZero(filedata))
       /\ (dSink = <<filedata>>) <=> (result_text = "Stored")
       /\ result_text # "Stored" => dSink = <<>>
       /\ ~Faulted => filedata = CopyAll(dPages, Len(dPages))
       /\ (~Faulted /\ ~NonZero(filedata)) => result_text = "NoData"
       /\ Faulted => result_text = "Unable" /\ dIdx = dFault - 1

\* the iteration faulted after a fragment with a non-zero byte was copied
Wit_C1 ==
  /\ dPc = "done" /\ result_text = "Unable" /\ dSink = <<>>
  /\ dIdx >= 1 /\ NonZero(filedata)

\* fragment k writes the buffer's i-th byte
Covers(k, i) ==
  /\ dPages[k].fileoffset < i
  /\ i <= dPages[k].fileoffset + dPages[k].datasize

ByteOf(k, i) ==
  LayerRead(dPages[k].memoffset, dPages[k].datasize)[i - dPages[k].fileoffset]

LastCover(i) ==
  CHOOSE k \in 1..Len(dPages) :
    Covers(k, i) /\ \A j \in 1..Len(dPages) : Covers(j, i) => j <= k

\* C5: when the iteration ends without a fault, every offset some fragment
\* covers lies in the buffer and holds the byte of the last fragment, in
\* iteration order, that covers it; every other offset of the buffer is zero.
Thm_C5 ==
  (dPc = "done" /\ ~Faulted) =>
    /\ \A k \in 1..Len(dPages) :
         dPages[k].datasize > 0 => dPages[k].fileoffset + dPages[k].datasize <= Len(filedata)
    /\ \A i \in 1..Len(filedata) :
         IF \E k \in 1..Len(dPages) : Covers(k, i)
           THEN filedata[i] = ByteOf(LastCover(i), i)
           ELSE filedata[i] = 0

\* two fragments cover one offset with different bytes, the later one at the
\* lower destination offset, and a gap is left that no fragment covers
Wit_C5 ==
  /\ dPc = "done" /\ ~Faulted /\ Len(dPages) = 2
  /\ dPages[2].fileoffset < dPages[1].fileoffset
  /\ \E i \in 1..Len(filedata) :
       Covers(1, i) /\ Covers(2, i) /\ ByteOf(1, i) # ByteOf(2, i)
  /\ \E i \in 1..Len(filedata) : \A k \in 1..2 : ~Covers(k, i)

InSeq(x, s) == \E i \in 1..Len(s) : s[i] = x
IsPrefix(s, t) == Len(s) <= Len(t) /\ \A i \in 1..Len(s) : s[i] = t[i]

\* the members of the unit's file that were dereferenced without a fault and
\* are valid, in the order of the walk
GoodMembers(u) ==
  SelectSeq(MemberOrder, LAMBDA m : InSeq(m, u.derefs) /\ u.file.mem[m] \in CacheKinds)

\* C6: for a file object on a DISK or NETWORK_FILE_SYSTEM device,
\* process_file_object tries each of the three members whatever the others
\* did, and yields exactly one row, in member order, for each member that
\* was dereferenced without a fault and is valid; dump_file_producer is
\* called on those members only, and the row carries its result whatever
\* that is.
Thm_C6 ==
  (unit.kind = "file" /\ unit.file.devOk /\ unit.file.dev \in DiskDevices) =>
    LET good == GoodMembers(unit)
    IN  /\ unit.file.nameOk => unit.derefs = MemberOrder
        /\ IsPrefix(unit.calls, good)
        /\ unit.status # "running" => unit.calls = good
        /\ Len(unit.rows) = Len(unit.calls)
        /\ \A i \in 1..Len(unit.rows) :
             unit.rows[i] = [cache |-> CacheNames[good[i]], file |-> unit.file,
                             result |-> Dump(unit.file, good[i]).text]

\* the first member faults, the second is invalid, the third gave its row
Wit_C6 ==
  /\ unit.kind = "file" /\ unit.status = "returned"
  /\ unit.file.devOk /\ unit.file.dev = FILE_DEVICE_NETWORK_FILE_SYSTEM
  /\ unit.file.mem[1] = "fault" /\ unit.file.mem[2] = "invalid"
  /\ unit.file.mem[3] = "bad"
  /\ Len(unit.rows) = 1 /\ unit.rows[1].result = "Unable"

\* C9: a file object whose device type is neither DISK nor
\* NETWORK_FILE_SYSTEM yields no row; no member is dereferenced,
\* dump_file_producer is not called and nothing reaches produce_file.
Thm_C9 ==
  /\ (unit.kind = "file" /\ unit.file.devOk /\ unit.file.dev \notin DiskDevices) =>
       /\ unit.status = "returned"
       /\ unit.rows = <<>> /\ unit.derefs = <<>> /\ unit.calls = <<>> /\ unit.sunk = 0
  /\ \A p \in BagToSet(attempts) : p[1].dev \in DiskDevices
  /\ \A f \in BagToSet(found) : f.dev \in DiskDevices

\* a named pipe's file object with three valid caches was passed by
Wit_C9 ==
  /\ pc = "done" /\ unit.kind = "file" /\ unit.status = "returned"
  /\ unit.file.devOk /\ unit.file.dev = FILE_DEVICE_NAMED_PIPE
  /\ \A m \in 1..3 : unit.file.mem[m] = "data"
  /\ delivered = 0 /\ stored = 0

\* C2: in process-driven mode no address fault leaves _generator, and no
\* mapping-tree node that comes after a faulting unit is left unprocessed.
CX_C2 ==
  /\ pc # "raised"
  /\ skipped.nodes = 0

\* C3: a process whose proc.ObjectTable faults yields, from its mapping-tree
\* walk, the rows the walk yields when the handle table is empty.
CX_C3 ==
  unit.kind = "otfault" => unit.rows = skipped.rows

TagLE(a, b) ==
  \/ a[1] < b[1]
  \/ a[1] = b[1] /\ a[2] < b[2]
  \/ a[1] = b[1] /\ a[2] = b[2] /\ a[3] <= b[3]

\* C4: the units (handle entries, mapping-tree nodes) are worked on in the
\* order process, then handle table before mapping tree, then position in
\* the walk, and every row is yielded by the unit worked on at that time, so
\* the rows follow that order.
Thm_C4 ==
  [][/\ TagLE(unit.tag, unit'.tag)
     /\ delivered' # delivered =>
          /\ delivered' = delivered + 1
          /\ unit'.rows # <<>>
          /\ unit'.tag[1] = procIdx'
          /\ unit'.tag[2] = WalkNo(cur'.walk)
          /\ unit'.tag[3] = IF cur'.walk = "handles" THEN hIdx'
                            ELSE IF cur'.walk = "vads" THEN vIdx' ELSE oIdx'
          /\ unit'.tag = unit.tag => unit'.rows = Append(unit.rows, unit'.rows[Len(unit'.rows)])
          /\ unit'.tag # unit.tag => Len(unit'.rows) = 1]_vars

\* a row of the second process's mapping tree, after rows of earlier units
Wit_C4 ==
  /\ pc = "yielded" /\ unit.tag[1] = 2 /\ unit.tag[2] = WalkNo("vads")
  /\ unit.tag[3] = 2 /\ delivered > Len(unit.rows)

\* C7, as claimed: over one process-driven run every <<file object, cache
\* object>> pair that is reconstructed is reconstructed once, whichever handle
\* entries and mapping-tree nodes reach the file object.
CX_C7 ==
  nProcs > 0 => \A p \in BagToSet(attempts) : CopiesIn(p, attempts) = 1

\* the members of a suspended process_file_object that are still queued
Queued(f, m) == pc = "yielded" /\ cur.file = f /\ InSeq(m, cur.queue)

\* C7, amended: every call of process_file_object that gets past the device
\* filter and the name lookup makes exactly one call of dump_file_producer,
\* and one row, for each valid cache member of the file; the calls are not
\* deduplicated, so a pair reached k times is reconstructed k times.
Thm_C7 ==
  /\ \A f \in image, m \in 1..3 :
       CopiesIn(<<f, m>>, attempts) =
         IF f.mem[m] \in CacheKinds
           THEN CopiesIn(f, found) - (IF Queued(f, m) THEN 1 ELSE 0)
           ELSE 0
  /\ BagToSet(attempts) \subseteq image \X (1..3)
  /\ started = BagCardinality(attempts)
  /\ delivered = started

\* one process reaches the same file object by a handle and by a mapping-tree
\* node, and its caches were reconstructed both times
Wit_C7 ==
  /\ procIdx = 1 /\ unit.kind = "file" /\ unit.status = "returned"
  /\ unit.tag[2] = WalkNo("vads")
  /\ CopiesIn(unit.file, found) = 2
  /\ \E m \in 1..3 : CopiesIn(<<unit.file, m>>, attempts) = 2

RECURSIVE SumRows(_)
SumRows(fs) ==
  IF fs = {} THEN 0
  ELSE LET f == CHOOSE x \in fs : TRUE
       IN  CopiesIn(f, found) * Len(FileRows(f)) + SumRows(fs \ {f})

\* C8: in explicit-offset mode no fault leaves _generator; the offsets are
\* worked on in list order and all of them are; an offset whose
\* materialization or first field accesses fault yields no row, and every
\* other offset yields the rows it yields alone, whatever came before.
Thm_C8 ==
  nProcs = 0 =>
    /\ pc # "raised"
    /\ unit.kind # "none" => unit.tag = <<0, WalkNo("offsets"), oIdx>>
    /\ unit.status # "running" =>
         unit.rows = IF unit.kind = "file" THEN FileRows(unit.file) ELSE <<>>
    /\ unit.status = "running" =>
         /\ IsPrefix(unit.rows, FileRows(unit.file))
         /\ Len(unit.rows) + Len(cur.queue) = Len(FileRows(unit.file))
    /\ delivered = SumRows(image) - Len(cur.queue)
    /\ pc = "done" => oIdx = nOffsets

\* the second offset faulted and the rows of the first one stand
Wit_C8 ==
  /\ nProcs = 0 /\ pc = "done" /\ oIdx = 2
  /\ unit.kind = "fault" /\ unit.status = "raised" /\ unit.rows = <<>>
  /\ delivered = 2 /\ stored = 1

\* C10: at every point the calls of dump_file_producer and of produce_file
\* are no more than the rows asked for, and while the consumer is not asking
\* every reconstruction started has had its row delivered.
Thm_C10 ==
  /\ started <= requested
  /\ stored <= requested
  /\ delivered <= requested
  /\ started <= delivered + 1
  /\ ~pending => started = delivered

\* the consumer has one row and may stop: a second cache object of the same
\* file is queued and not reconstructed
Wit_C10 ==
  /\ ~pending /\ pc = "yielded" /\ cur.queue # <<>>
  /\ requested = 1 /\ delivered = 1 /\ started = 1

====
